---- MODULE Spec2Model ----
(***************************************************************************)
(* Model of gitmerge (helmutkemper/mergecomplex): the Control type of      *)
(* internal/git (branch comparison on go-git trees, single-file conflict   *)
(* diff, materialisation of changed files) and the pure line-by-line       *)
(* conflict-marker generator generateDiff.                                 *)
(*                                                                         *)
(* A Go string is modelled as a sequence of one-character strings, so that *)
(* strings.Split, the "\n" terminators and the marker lines are computed,  *)
(* not assumed.                                                            *)
(***************************************************************************)
EXTENDS Integers, Sequences, FiniteSets, TLC

VARIABLES
    branchContent,  \* generateDiff: first argument (base / theirs)
    localContent,   \* generateDiff: second argument (target / ours)
    result,         \* generateDiff: the returned string
    pc,             \* "input" before the call, "done" after it
    trees,          \* the repository on disk at RepoDir: branch -> tree snapshot
    repository,     \* Control.repository: NIL or the directory of the open repository
    fsDest,         \* the files under destDir: relative path -> content or Absent
    call,           \* the operation of Control that ran last, with what it returned
    phase,          \* "idle" between calls, "returned" after one
    prev,           \* history: the call the caller took before the current one
    reqs,           \* HTTP server: connection -> the request its goroutine serves
    readReq,        \* HTTP server: the /api/read request and its answer
    raw             \* the changes targetTree.Diff(baseTree) handed to the method

diffVars == <<branchContent, localContent, result, pc>>
ctlVars == <<trees, repository, fsDest, call, phase>>
histVars == <<prev>>
httpVars == <<reqs, readReq>>
rawVars == <<raw>>
vars == <<branchContent, localContent, result, pc, trees, repository, fsDest, call, phase,
          prev, reqs, readReq, raw>>

----------------------------------------------------------------------------
(* Strings                                                                 *)

NL == "\n"

\* the lines the input strings are made of
LineSet == {<<>>, <<"x">>, <<"y">>, <<"z">>}

\* most text lines of an input string
MaxTextLines == 3

\* the segments written one after the other with "\n" between them
RECURSIVE JoinNL(_)
JoinNL(segs) ==
    IF Len(segs) = 1 THEN segs[1]
    ELSE segs[1] \o <<NL>> \o JoinNL(Tail(segs))

\* every string of at most MaxTextLines lines, with or without a final "\n":
\* "", "x", "x\n", "x\ny", "x\ny\n", "\n\nz\n", ...
Strings ==
    {JoinNL(segs) \o end : segs \in UNION {[1..n -> LineSet] : n \in 1..MaxTextLines},
                           end \in {<<>>, <<NL>>}}

\* index of the first "\n" of s, 0 when there is none
RECURSIVE IndexNL(_, _)
IndexNL(s, k) ==
    IF k > Len(s) THEN 0
    ELSE IF s[k] = NL THEN k
    ELSE IndexNL(s, k + 1)

\* strings.Split(s, "\n"): the segments between separators; Split("") = <<"">>
RECURSIVE Split(_)
Split(s) ==
    LET k == IndexNL(s, 1)
    IN  IF k = 0 THEN <<s>>
        ELSE <<SubSeq(s, 1, k - 1)>> \o Split(SubSeq(s, k + 1, Len(s)))

HeadMarker == <<"<", "<", "<", "<", "<", "<", "<", " ", "H", "E", "A", "D">>
SepMarker == <<"=", "=", "=", "=", "=", "=", "=">>
BranchMarker == <<">", ">", ">", ">", ">", ">", ">", " ", "b", "r", "a", "n", "c", "h">>

----------------------------------------------------------------------------
(* generateDiff                                                            *)

\* ConflictBlock with the two sides written in the wrong order
ConflictBlockSwapped(branchLine, localLine) ==
    HeadMarker \o <<NL>> \o branchLine \o <<NL>> \o SepMarker \o <<NL>>
        \o localLine \o <<NL>> \o BranchMarker \o <<NL>>

\* the default case of the switch: the five WriteString calls of a block
ConflictBlock(branchLine, localLine) ==
    HeadMarker \o <<NL>> \o localLine \o <<NL>> \o SepMarker \o <<NL>>
        \o branchLine \o <<NL>> \o BranchMarker \o <<NL>>

\* EmitLine that writes nothing for a line that exists only in localLines
EmitLineDropExtra(branchLines, localLines, i) ==
    LET branchLine == IF i < Len(branchLines) THEN branchLines[i + 1] ELSE <<>>
        localLine == IF i < Len(localLines) THEN localLines[i + 1] ELSE <<>>
    IN  IF i >= Len(branchLines) THEN <<>>
        ELSE IF i >= Len(localLines) THEN branchLine \o <<NL>>
        ELSE IF branchLine = localLine THEN localLine \o <<NL>>
        ELSE ConflictBlock(branchLine, localLine)

\* one iteration of the loop body: what is written for index i (0-based)
EmitLine(branchLines, localLines, i) ==
    LET branchLine == IF i < Len(branchLines) THEN branchLines[i + 1] ELSE <<>>
        localLine == IF i < Len(localLines) THEN localLines[i + 1] ELSE <<>>
    IN  IF i >= Len(branchLines) THEN localLine \o <<NL>>
        ELSE IF i >= Len(localLines) THEN branchLine \o <<NL>>
        ELSE IF branchLine = localLine THEN localLine \o <<NL>>
        ELSE ConflictBlock(branchLine, localLine)

\* MaxLines that never looks at localLines
MaxLinesOfBranch(branchLines, localLines) == Len(branchLines)

\* maxLen := len(branchLines); if len(localLines) > maxLen { maxLen = ... }
MaxLines(branchLines, localLines) ==
    IF Len(localLines) > Len(branchLines) THEN Len(localLines) ELSE Len(branchLines)

\* DiffLoop that writes a second conflict block after every conflict block
RECURSIVE DiffLoopTwice(_, _, _, _)
DiffLoopTwice(branchLines, localLines, i, builder) ==
    IF i >= MaxLines(branchLines, localLines) THEN builder
    ELSE LET emitted == EmitLine(branchLines, localLines, i)
         IN  DiffLoopTwice(branchLines, localLines, i + 1,
                           builder \o emitted
                               \o (IF Len(emitted) > Len(HeadMarker) THEN emitted ELSE <<>>))

\* for i := 0; i < maxLen; i++ { ... }, accumulating in the strings.Builder
RECURSIVE DiffLoop(_, _, _, _)
DiffLoop(branchLines, localLines, i, builder) ==
    IF i >= MaxLines(branchLines, localLines) THEN builder
    ELSE DiffLoop(branchLines, localLines, i + 1,
                  builder \o EmitLine(branchLines, localLines, i))

\* generateDiff that closes its output with one more marker line
generateDiffClosingMarker(branchContentArg, localContentArg) ==
    DiffLoop(Split(branchContentArg), Split(localContentArg), 0, <<>>)
        \o BranchMarker \o <<NL>>

generateDiff(branchContentArg, localContentArg) ==
    DiffLoop(Split(branchContentArg), Split(localContentArg), 0, <<>>)

----------------------------------------------------------------------------
(* The Version Snapshot Provider: go-git as Control calls it               *)

NIL == "nil"
\* what a tree or a directory holds at a path where it has no file
Absent == <<"absent">>

\* the directory that holds a git repository, and two that do not
RepoDir == "/repo"
DirArgs == {RepoDir, "/notgit", "/missing"}

\* refs/heads/* of the repository
BranchNames == {"main", "feature"}

\* branch names handed to the operations: the two heads and two unknown ones
BranchArgs == BranchNames \cup {"nope", "gone"}

\* the tracked paths, in the byte order go-git sorts names in
Paths == <<"a.txt", "a/b/c.txt", "newfile.txt">>
PathSet == {Paths[k] : k \in 1..Len(Paths)}

\* file names handed to DiffSpecificFile: the tracked paths, a name no tree
\* holds, and the empty string
FileArgs == PathSet \cup {"missing.txt", ""}

FileContents == {<<"x", NL, "y", NL>>, <<"x", NL, "z", NL>>}

\* a tree snapshot: path -> content, Absent where the tree has no such file
TreeSet == [PathSet -> FileContents \cup {Absent}]

\* object.ChangeEntry; the zero value (empty) has the name ""
EmptyEntry == [Name |-> ""]
Entry(path) == [Name |-> path]

\* object.Change
Change(from, to) == [From |-> from, To |-> to]

\* go-git's exact rename detection: an added path (only in the tree diffed
\* to) is paired with a deleted path (only in the tree diffed from) of the
\* same content; each path is paired at most once, candidates in path order
RECURSIVE ExactRenames(_, _, _, _, _)
ExactRenames(from, to, adds, deletes, pairs) ==
    IF adds = <<>> THEN pairs
    ELSE LET a == Head(adds)
             cands == SelectSeq(deletes, LAMBDA d : from[d] = to[a])
         IN  IF cands = <<>>
             THEN ExactRenames(from, to, Tail(adds), deletes, pairs)
             ELSE ExactRenames(from, to, Tail(adds),
                               SelectSeq(deletes, LAMBDA d : d # cands[1]),
                               pairs \cup {<<cands[1], a>>})

\* the changes of a diff listed by name (To.Name, or From.Name of a delete)
RECURSIVE ChangesByName(_, _, _, _)
ChangesByName(from, to, renames, k) ==
    IF k > Len(Paths) THEN <<>>
    ELSE LET p == Paths[k]
             rest == ChangesByName(from, to, renames, k + 1)
         IN  IF from[p] = to[p] THEN rest
             ELSE IF from[p] # Absent /\ to[p] # Absent
                  THEN <<Change(Entry(p), Entry(p))>> \o rest
             ELSE IF from[p] = Absent
                  THEN IF \E r \in renames : r[2] = p
                       THEN LET r == CHOOSE r \in renames : r[2] = p
                            IN  <<Change(Entry(r[1]), Entry(p))>> \o rest
                       ELSE <<Change(EmptyEntry, Entry(p))>> \o rest
             ELSE IF \E r \in renames : r[1] = p
                  THEN rest
                  ELSE <<Change(Entry(p), EmptyEntry)>> \o rest

\* (*object.Tree).Diff: t.Diff(to) lists the changes that turn t into to,
\* with renames detected (DefaultDiffTreeOptions), sorted by name
TreeDiff(t, to) ==
    LET adds == SelectSeq(Paths, LAMBDA p : t[p] = Absent /\ to[p] # Absent)
        deletes == SelectSeq(Paths, LAMBDA p : t[p] # Absent /\ to[p] = Absent)
    IN  ChangesByName(t, to, ExactRenames(t, to, adds, deletes, {}), 1)

\* (*object.Change).Action
Action(change) ==
    IF change.From = EmptyEntry /\ change.To = EmptyEntry
        THEN [action |-> "none", err |-> "malformed change"]
    ELSE IF change.From = EmptyEntry THEN [action |-> "Insert", err |-> NIL]
    ELSE IF change.To = EmptyEntry THEN [action |-> "Delete", err |-> NIL]
    ELSE [action |-> "Modify", err |-> NIL]

\* (*object.Tree).File: the content of the file at path, NIL with an error
\* when the tree has no such file
TreeFile(tree, path) ==
    IF path \in PathSet /\ tree[path] # Absent
        THEN [content |-> tree[path], err |-> NIL]
        ELSE [content |-> <<>>, err |-> "file not found"]

\* (*git.Repository).Reference("refs/heads/<name>", true) on the repository
\* at RepoDir
HasBranch(name) == name \in BranchNames

\* git.PlainOpen: a handle for a directory that holds a repository, nil and
\* an error for any other
PlainOpen(repoPath) ==
    IF repoPath = RepoDir
        THEN [repository |-> repoPath, err |-> NIL]
        ELSE [repository |-> NIL, err |-> "repository does not exist"]

\* the references of the repository in iteration order
References ==
    << [prefix |-> "", short |-> "HEAD"],
       [prefix |-> "refs/heads/", short |-> "feature"],
       [prefix |-> "refs/heads/", short |-> "main"],
       [prefix |-> "refs/remotes/", short |-> "origin/main"],
       [prefix |-> "refs/tags/", short |-> "v1"] >>

IsBranch(ref) == ref.prefix = "refs/heads/"
IsRemote(ref) == ref.prefix = "refs/remotes/"

----------------------------------------------------------------------------
(* Control (internal/git)                                                  *)

NoErr == [kind |-> "nil"]
\* fmt.Errorf("repositório não inicializado")
ErrNotInitialized == [kind |-> "NotInitialized"]
\* fmt.Errorf("erro ao obter referência da branch %s: %w", name, err)
ErrBranchReference(name) == [kind |-> "BranchReference", branch |-> name]
\* fmt.Errorf("arquivo foi deletado ou não modificado")
ErrDeletedOrUnchanged == [kind |-> "DeletedOrUnchanged"]
\* fmt.Errorf("arquivo %s não encontrado nas diferenças entre as branches", fileName)
ErrFileNotInDiff(fileName) == [kind |-> "FileNotInDiff", file |-> fileName]
\* fmt.Errorf("erro ao ler arquivo %s: %w", fileName, err)
ErrReadFile(fileName) == [kind |-> "ReadFile", file |-> fileName]
\* fmt.Errorf("erro ao criar diretório %s: %w", filepath.Dir(destPath), err)
ErrCreateDir(fileName) == [kind |-> "CreateDir", file |-> fileName]
\* fmt.Errorf("erro ao salvar arquivo %s: %w", destPath, err)
ErrSaveFile(fileName) == [kind |-> "SaveFile", file |-> fileName]
\* the errors.Join of NewRepoLocal, whose last line is "diretório: <repoPath>"
ErrOpenRepository(repoPath) == [kind |-> "OpenRepository", dir |-> repoPath]

\* the errors.Join of NewRepoLocal of package git (src/git/git.go): its only
\* line is "certifique-se de que o diretório é um repositório git válido",
\* which names no directory
ErrOpenRepositoryNoPath == [kind |-> "OpenRepository", dir |-> ""]

\* a call that returned (val, err)
Ret(val, err) == [val |-> val, err |-> err, panicked |-> FALSE]
\* a call that did not return: a method of the nil *git.Repository
\* dereferenced it (runtime panic: nil pointer dereference)
Panic == [val |-> <<>>, err |-> NoErr, panicked |-> TRUE]

\* a map[string]string is the set of its <<key, value>> pairs; nil has none
NilMap == {}

IsInitialized(repo) == repo # NIL

\* ResolveBranches with the base looked up before the target
ResolveBranchesBaseFirst(branchName, branchBase) ==
    IF ~HasBranch(branchBase) THEN ErrBranchReference(branchBase)
    ELSE IF ~HasBranch(branchName) THEN ErrBranchReference(branchName)
    ELSE NoErr

\* the two e.repository.Reference lookups every comparison starts with:
\* the target first, then the base
ResolveBranches(branchName, branchBase) ==
    IF ~HasBranch(branchName) THEN ErrBranchReference(branchName)
    ELSE IF ~HasBranch(branchBase) THEN ErrBranchReference(branchBase)
    ELSE NoErr

\* BranchChanges that always compares with the tree of main
BranchChangesAgainstMain(tr, branchName, branchBase) ==
    TreeDiff(tr[branchName], tr["main"])

\* changes, err := targetTree.Diff(baseTree)
BranchChanges(tr, branchName, branchBase) == TreeDiff(tr[branchName], tr[branchBase])

NewRepoLocal(repoPath) ==
    LET opened == PlainOpen(repoPath)
    IN  [repository |-> opened.repository,
         err |-> IF opened.err # NIL THEN ErrOpenRepository(repoPath) ELSE NoErr]

\* NewRepoLocal of package git (src/git/git.go), the older copy of Control
NewRepoLocalLegacy(repoPath) ==
    LET opened == PlainOpen(repoPath)
    IN  [repository |-> opened.repository,
         err |-> IF opened.err # NIL THEN ErrOpenRepositoryNoPath ELSE NoErr]

\* branches = append(branches, ref.Name().Short()) for each reference kept
ShortNames(kept) == [k \in 1..Len(kept) |-> kept[k].short]

ListBranches(repo) ==
    IF repo = NIL THEN Ret(<<>>, ErrNotInitialized)
    ELSE Ret(ShortNames(SelectSeq(References, IsBranch)), NoErr)

\* return e.ListBranches()
ListLocalBranches(repo) == ListBranches(repo)

\* ListAllBranches that appends every reference
ListAllBranchesEveryRef(repo) ==
    IF repo = NIL THEN Ret(<<>>, ErrNotInitialized)
    ELSE Ret(ShortNames(References), NoErr)

ListAllBranches(repo) ==
    IF repo = NIL THEN Ret(<<>>, ErrNotInitialized)
    ELSE Ret(ShortNames(SelectSeq(References, LAMBDA ref : IsBranch(ref) \/ IsRemote(ref))),
             NoErr)

ListRemoteBranches(repo) ==
    IF repo = NIL THEN Ret(<<>>, ErrNotInitialized)
    ELSE Ret(ShortNames(SelectSeq(References, IsRemote)), NoErr)

\* ModifiedFilesLoop that takes a change of unknown action for a modified file
RECURSIVE ModifiedFilesLoopKeepUnknown(_)
ModifiedFilesLoopKeepUnknown(changes) ==
    IF changes = <<>> THEN <<>>
    ELSE LET change == Head(changes)
             a == Action(change)
         IN  (IF a.err # NIL THEN <<change.To.Name>>
              ELSE IF a.action = "Insert" THEN <<change.To.Name>>
              ELSE IF a.action = "Modify" THEN <<change.To.Name>>
              ELSE <<>>) \o ModifiedFilesLoopKeepUnknown(Tail(changes))

\* the loop of GetModifiedFiles over the changes
RECURSIVE ModifiedFilesLoop(_)
ModifiedFilesLoop(changes) ==
    IF changes = <<>> THEN <<>>
    ELSE LET change == Head(changes)
             a == Action(change)
         IN  (IF a.err # NIL THEN <<>>
              ELSE IF a.action = "Insert" THEN <<change.To.Name>>
              ELSE IF a.action = "Modify" THEN <<change.To.Name>>
              ELSE <<>>) \o ModifiedFilesLoop(Tail(changes))

GetModifiedFiles(repo, tr, branchName, branchBase) ==
    IF repo = NIL THEN Panic
    ELSE IF ResolveBranches(branchName, branchBase) # NoErr
        THEN Ret(<<>>, ResolveBranches(branchName, branchBase))
    ELSE Ret(ModifiedFilesLoop(BranchChanges(tr, branchName, branchBase)), NoErr)

\* ChangedFilesLoop without the case merkletrie.Delete
RECURSIVE ChangedFilesLoopNoDelete(_)
ChangedFilesLoopNoDelete(changes) ==
    IF changes = <<>> THEN <<>>
    ELSE LET change == Head(changes)
             a == Action(change)
         IN  (IF a.err # NIL THEN <<>>
              ELSE IF a.action = "Insert" THEN <<change.To.Name>>
              ELSE IF a.action = "Modify" THEN <<change.To.Name>>
              ELSE <<>>) \o ChangedFilesLoopNoDelete(Tail(changes))

\* the loop of GetAllChangedFiles over the changes
RECURSIVE ChangedFilesLoop(_)
ChangedFilesLoop(changes) ==
    IF changes = <<>> THEN <<>>
    ELSE LET change == Head(changes)
             a == Action(change)
         IN  (IF a.err # NIL THEN <<>>
              ELSE IF a.action = "Insert" THEN <<change.To.Name>>
              ELSE IF a.action = "Modify" THEN <<change.To.Name>>
              ELSE IF a.action = "Delete" THEN <<change.From.Name>>
              ELSE <<>>) \o ChangedFilesLoop(Tail(changes))

GetAllChangedFiles(repo, tr, branchName, baseBranch) ==
    IF repo = NIL THEN Ret(<<>>, ErrNotInitialized)
    ELSE IF ResolveBranches(branchName, baseBranch) # NoErr
        THEN Ret(<<>>, ResolveBranches(branchName, baseBranch))
    ELSE Ret(ChangedFilesLoop(BranchChanges(tr, branchName, baseBranch)), NoErr)

FileChange(path, action) == [Path |-> path, Action |-> action]

\* FileChangesLoop that takes the new path also for a deleted file
RECURSIVE FileChangesLoopNewPath(_)
FileChangesLoopNewPath(changes) ==
    IF changes = <<>> THEN <<>>
    ELSE LET change == Head(changes)
             a == Action(change)
         IN  (IF a.err # NIL THEN <<>>
              ELSE IF a.action = "Insert" THEN <<FileChange(change.To.Name, "added")>>
              ELSE IF a.action = "Modify" THEN <<FileChange(change.To.Name, "modified")>>
              ELSE IF a.action = "Delete" THEN <<FileChange(change.To.Name, "deleted")>>
              ELSE <<FileChange("", "")>>) \o FileChangesLoopNewPath(Tail(changes))

\* the loop of GetFileChanges over the changes
RECURSIVE FileChangesLoop(_)
FileChangesLoop(changes) ==
    IF changes = <<>> THEN <<>>
    ELSE LET change == Head(changes)
             a == Action(change)
         IN  (IF a.err # NIL THEN <<>>
              ELSE IF a.action = "Insert" THEN <<FileChange(change.To.Name, "added")>>
              ELSE IF a.action = "Modify" THEN <<FileChange(change.To.Name, "modified")>>
              ELSE IF a.action = "Delete" THEN <<FileChange(change.From.Name, "deleted")>>
              ELSE <<FileChange("", "")>>) \o FileChangesLoop(Tail(changes))

GetFileChanges(repo, tr, branchName, baseBranch) ==
    IF repo = NIL THEN Ret(<<>>, ErrNotInitialized)
    ELSE IF ResolveBranches(branchName, baseBranch) # NoErr
        THEN Ret(<<>>, ResolveBranches(branchName, baseBranch))
    ELSE Ret(FileChangesLoop(BranchChanges(tr, branchName, baseBranch)), NoErr)

\* the destination directory the files are materialised in, and the names
\* a file can have under it: the tracked paths and one unrelated file
DestDir == "./output"
DestNames == PathSet \cup {"old.txt"}

\* filepath.Join(destDir, fileName)
DestPath(destDir, fileName) == [dir |-> destDir, rel |-> fileName]

\* what the file system does to the calls of one DownloadModifiedFiles:
\* whether os.RemoveAll fails, and the step (os.MkdirAll or os.WriteFile)
\* that fails for one file; failStep "" when every step succeeds
NoFaults == [clearFails |-> FALSE, failStep |-> "", failFile |-> ""]
Faults ==
    [clearFails : BOOLEAN, failStep : {""}, failFile : {""}]
        \cup [clearFails : BOOLEAN, failStep : {"MkdirAll", "WriteFile"}, failFile : PathSet]

\* os.RemoveAll(destDir): a call that fails leaves the directory as it was
RemoveAll(fs, fails) == IF fails THEN fs ELSE [n \in DestNames |-> Absent]

\* DownloadLoop that goes on to the next change when a file cannot be read
RECURSIVE DownloadLoopSkipUnreadable(_, _, _, _, _, _)
DownloadLoopSkipUnreadable(changes, targetTree, destDir, fs, downloaded, faults) ==
    IF changes = <<>> THEN [out |-> Ret(downloaded, NoErr), fs |-> fs]
    ELSE LET change == Head(changes)
             a == Action(change)
             fileName == change.To.Name
             fileInTree == TreeFile(targetTree, fileName)
         IN  IF a.err # NIL \/ (a.action # "Insert" /\ a.action # "Modify")
                    \/ fileInTree.err # NIL
                 THEN DownloadLoopSkipUnreadable(Tail(changes), targetTree, destDir, fs,
                                                 downloaded, faults)
             ELSE IF faults.failStep = "MkdirAll" /\ faults.failFile = fileName
                 THEN [out |-> Ret(downloaded, ErrCreateDir(fileName)), fs |-> fs]
             ELSE IF faults.failStep = "WriteFile" /\ faults.failFile = fileName
                 THEN [out |-> Ret(downloaded, ErrSaveFile(fileName)), fs |-> fs]
             ELSE DownloadLoopSkipUnreadable(
                      Tail(changes), targetTree, destDir,
                      [fs EXCEPT ![fileName] = fileInTree.content],
                      Append(downloaded, DestPath(destDir, fileName)), faults)

\* the loop of DownloadModifiedFiles over the changes: the files written so
\* far are in fs, their destination paths in downloaded
RECURSIVE DownloadLoop(_, _, _, _, _, _)
DownloadLoop(changes, targetTree, destDir, fs, downloaded, faults) ==
    IF changes = <<>> THEN [out |-> Ret(downloaded, NoErr), fs |-> fs]
    ELSE LET change == Head(changes)
             a == Action(change)
             fileName == change.To.Name
             fileInTree == TreeFile(targetTree, fileName)
         IN  IF a.err # NIL
                 THEN DownloadLoop(Tail(changes), targetTree, destDir, fs, downloaded,
                                   faults)
             ELSE IF a.action # "Insert" /\ a.action # "Modify"
                 THEN DownloadLoop(Tail(changes), targetTree, destDir, fs, downloaded,
                                   faults)
             ELSE IF fileInTree.err # NIL
                 THEN [out |-> Ret(downloaded, ErrReadFile(fileName)), fs |-> fs]
             ELSE IF faults.failStep = "MkdirAll" /\ faults.failFile = fileName
                 THEN [out |-> Ret(downloaded, ErrCreateDir(fileName)), fs |-> fs]
             ELSE IF faults.failStep = "WriteFile" /\ faults.failFile = fileName
                 THEN [out |-> Ret(downloaded, ErrSaveFile(fileName)), fs |-> fs]
             ELSE DownloadLoop(Tail(changes), targetTree, destDir,
                               [fs EXCEPT ![fileName] = fileInTree.content],
                               Append(downloaded, DestPath(destDir, fileName)), faults)

DownloadModifiedFiles(repo, tr, fs, branchName, branchBase, destDir, faults) ==
    LET cleared == RemoveAll(fs, faults.clearFails)
    IN  IF repo = NIL THEN [out |-> Panic, fs |-> cleared]
        ELSE IF ResolveBranches(branchName, branchBase) # NoErr
            THEN [out |-> Ret(<<>>, ResolveBranches(branchName, branchBase)),
                  fs |-> cleared]
        ELSE DownloadLoop(BranchChanges(tr, branchName, branchBase),
                          tr[branchName], destDir, cleared, <<>>, faults)

\* the loop of DiffSpecificFile over the changes, and the return after it
RECURSIVE DiffFileLoop(_, _, _, _)
DiffFileLoop(changes, targetTree, baseTree, fileName) ==
    IF changes = <<>> THEN Ret(NilMap, ErrFileNotInDiff(fileName))
    ELSE LET change == Head(changes)
             a == Action(change)
             baseFile == TreeFile(baseTree, fileName)
             baseContent == IF baseFile.err # NIL THEN <<>> ELSE baseFile.content
             targetFile == TreeFile(targetTree, fileName)
         IN  IF a.err # NIL
                 THEN DiffFileLoop(Tail(changes), targetTree, baseTree, fileName)
             ELSE IF change.To.Name # fileName
                 THEN DiffFileLoop(Tail(changes), targetTree, baseTree, fileName)
             ELSE IF a.action # "Insert" /\ a.action # "Modify"
                 THEN Ret(NilMap, ErrDeletedOrUnchanged)
             ELSE IF targetFile.err # NIL
                 THEN Ret(NilMap, ErrReadFile(fileName))
             ELSE Ret({<<fileName, generateDiff(baseContent, targetFile.content)>>},
                      NoErr)

DiffSpecificFile(repo, tr, branchName, branchBase, fileName) ==
    IF repo = NIL THEN Panic
    ELSE IF ResolveBranches(branchName, branchBase) # NoErr
        THEN Ret(NilMap, ResolveBranches(branchName, branchBase))
    ELSE DiffFileLoop(BranchChanges(tr, branchName, branchBase),
                      tr[branchName], tr[branchBase], fileName)

----------------------------------------------------------------------------
(* The HTTP server (cmd/main.go): requests and responses                   *)

\* most connections served at the same time, each by its own goroutine
MaxConnections == 2
Connections == 1..MaxConnections

\* the values of the query parameters dir, yourBranch, baseBranch and file
HttpDirs == {"", RepoDir, "/notgit", "/missing"}
HttpTargets == {"", "feature", "nope"}
HttpBases == {"", "main"}
HttpFiles == {"", "a.txt"}

NoQuery == [dir |-> "", yourBranch |-> "", baseBranch |-> "", file |-> ""]

\* the requests a client can send to the three git endpoints
HttpRequests ==
    [path : {"/git/branchs"},
     query : {[NoQuery EXCEPT !.dir = d] : d \in HttpDirs}]
    \cup
    [path : {"/git/changes"},
     query : {[NoQuery EXCEPT !.yourBranch = t, !.baseBranch = b] :
                 t \in HttpTargets, b \in HttpBases}]
    \cup
    [path : {"/git/diff"},
     query : {[NoQuery EXCEPT !.yourBranch = t, !.baseBranch = b, !.file = f] :
                 t \in HttpTargets, b \in HttpBases, f \in HttpFiles}]

\* errors.Join("no git control found", "please, use the endpoint ...")
ErrNoGitControl == [kind |-> "NoGitControl"]
\* fmt.Errorf("yourBranch not provided") and the like
ErrNotProvided(param) == [kind |-> "NotProvided", param |-> param]
\* fmt.Errorf("dir does not exist")
ErrDirDoesNotExist == [kind |-> "DirDoesNotExist"]
\* fmt.Errorf("file not found in diff")
ErrFileNotFoundInDiff == [kind |-> "FileNotFoundInDiff"]

\* a connection with no request; status is "none" while a request is
\* served, then "ok" (the body was written), "error" (setError) or "panic"
\* (the handler goroutine panicked: net/http recovers, writes no response
\* and closes the connection)
NoRequest ==
    [path |-> "", query |-> NoQuery, pc |-> "idle", status |-> "none",
     err |-> NoErr, names |-> <<>>, body |-> <<>>]

\* os.Stat(dir) of gitBranchHandler: only "/missing" does not exist
DirExists(dir) == dir # "/missing"

----------------------------------------------------------------------------
(* readHandler (cmd/main.go): paths are strings of characters              *)

\* most "/"-separated segments of the query parameter name
MaxNameSegments == 3

OutputSegment == <<"o", "u", "t", "p", "u", "t">>
\* the segments a name is made of: empty, ".", "..", "output", the sibling
\* directory "output2", and the file name "a"
NameSegments ==
    {<<>>, <<".">>, <<".", ".">>, OutputSegment, OutputSegment \o <<"2">>, <<"a">>}

\* strings.Join(segs, "/")
RECURSIVE JoinSlash(_)
JoinSlash(segs) ==
    IF segs = <<>> THEN <<>>
    ELSE IF Len(segs) = 1 THEN segs[1]
    ELSE segs[1] \o <<"/">> \o JoinSlash(Tail(segs))

\* the values of the query parameter name: "", "a", "../a", "../output2/a",
\* "/a", "output/../..", ...
Names ==
    {JoinSlash(segs) : segs \in UNION {[1..n -> NameSegments] : n \in 1..MaxNameSegments}}

\* index of the first "/" of s from k on, 0 when there is none
RECURSIVE IndexSlash(_, _)
IndexSlash(s, k) ==
    IF k > Len(s) THEN 0
    ELSE IF s[k] = "/" THEN k
    ELSE IndexSlash(s, k + 1)

\* the elements of a path between its separators
RECURSIVE SplitSlash(_)
SplitSlash(s) ==
    LET k == IndexSlash(s, 1)
    IN  IF k = 0 THEN <<s>>
        ELSE <<SubSeq(s, 1, k - 1)>> \o SplitSlash(SubSeq(s, k + 1, Len(s)))

\* the loop of filepath.Clean over the elements: "" and "." are dropped,
\* ".." takes back the element before it, or stays when there is none (or
\* only ".." elements) before it and the path is not rooted
RECURSIVE CleanLoop(_, _, _)
CleanLoop(elems, out, rooted) ==
    IF elems = <<>> THEN out
    ELSE LET e == Head(elems)
         IN  IF e = <<>> \/ e = <<".">>
                 THEN CleanLoop(Tail(elems), out, rooted)
             ELSE IF e = <<".", ".">>
                 THEN IF out # <<>> /\ out[Len(out)] # <<".", ".">>
                          THEN CleanLoop(Tail(elems), SubSeq(out, 1, Len(out) - 1), rooted)
                      ELSE IF rooted THEN CleanLoop(Tail(elems), out, rooted)
                      ELSE CleanLoop(Tail(elems), Append(out, e), rooted)
             ELSE CleanLoop(Tail(elems), Append(out, e), rooted)

\* the elements of the cleaned path
CleanElems(path) ==
    CleanLoop(SplitSlash(path), <<>>, path # <<>> /\ path[1] = "/")

\* filepath.Clean on a system whose separator is "/"
Clean(path) ==
    IF path # <<>> /\ path[1] = "/" THEN <<"/">> \o JoinSlash(CleanElems(path))
    ELSE IF CleanElems(path) = <<>> THEN <<".">>
    ELSE JoinSlash(CleanElems(path))

\* filepath.FromSlash: replaces "/" by the separator, which is "/" itself
FromSlash(path) ==
    [k \in 1..Len(path) |-> IF path[k] = "/" THEN "/" ELSE path[k]]

\* filepath.Join(dir, name): the non-empty elements joined by "/", cleaned
Join(dir, name) ==
    IF dir = <<>> /\ name = <<>> THEN <<>>
    ELSE IF name = <<>> THEN Clean(dir)
    ELSE IF dir = <<>> THEN Clean(name)
    ELSE Clean(dir \o <<"/">> \o name)

\* strings.HasPrefix
HasPrefix(s, prefix) ==
    Len(s) >= Len(prefix) /\ SubSeq(s, 1, Len(prefix)) = prefix

\* outputDir := "./output"
OutputDir == <<".", "/">> \o OutputSegment

\* os.ReadFile succeeds on a file: every directory holds one file, "a"
FileExists(path) ==
    LET elems == CleanElems(path)
    IN  /\ elems # <<>>
        /\ elems[Len(elems)] = <<"a">>
        /\ \A k \in 1..(Len(elems) - 1) : elems[k] # <<"a">>

\* no /api/read request
NoRead == [name |-> <<>>, pc |-> "off", status |-> "", opened |-> <<>>]

\* readHandler: the answer, and the path handed to os.ReadFile
readHandler(name) ==
    LET fullPath == Join(OutputDir, FromSlash(name))
    IN  IF name = <<>> THEN [status |-> "name not provided", opened |-> <<>>]
        ELSE IF ~HasPrefix(Clean(fullPath), Clean(OutputDir))
            THEN [status |-> "invalid path", opened |-> <<>>]
        ELSE IF ~FileExists(fullPath)
            THEN [status |-> "file not found", opened |-> fullPath]
        ELSE [status |-> "ok", opened |-> fullPath]

----------------------------------------------------------------------------
(* The operations of Control on one repository                             *)

\* the operations that return a []string of names
NameOps ==
    {"ListBranches", "ListLocalBranches", "ListAllBranches", "ListRemoteBranches",
     "GetModifiedFiles", "GetAllChangedFiles"}

\* the record of a call: the operation, its arguments, and its outcome with
\* the returned value in the field of its Go type ([]string of names,
\* []FileChange, []string of destination paths, map[string]string); the
\* other fields hold the zero value
Called(op, args, out) ==
    [op |-> op, args |-> args, err |-> out.err, panicked |-> out.panicked,
     names |-> IF op \in NameOps /\ ~out.panicked THEN out.val ELSE <<>>,
     changes |-> IF op = "GetFileChanges" THEN out.val ELSE <<>>,
     downloaded |-> IF op = "DownloadModifiedFiles" /\ ~out.panicked
                       THEN out.val ELSE <<>>,
     diff |-> IF op = "DiffSpecificFile" /\ ~out.panicked THEN out.val ELSE NilMap]

NoArgs ==
    [branchName |-> "", branchBase |-> "", fileName |-> "", repoPath |-> "",
     faults |-> NoFaults]

NoCall == Called("none", NoArgs, Ret(<<>>, NoErr))
BranchPair(branchName, branchBase) ==
    [branchName |-> branchName, branchBase |-> branchBase, fileName |-> "",
     repoPath |-> "", faults |-> NoFaults]

\* before any call: main's new(git.Control), a destination directory that
\* holds one unrelated file, and a repository whose two branches hold any
\* two trees
Init ==
    /\ trees \in [BranchNames -> TreeSet]
    /\ repository = NIL
    /\ fsDest = [n \in DestNames |-> IF n = "old.txt" THEN <<"x", NL>> ELSE Absent]
    /\ call = NoCall
    /\ phase = "idle"
    /\ prev = NoCall
    /\ reqs = [c \in Connections |-> NoRequest]
    /\ readReq = NoRead
    /\ raw = <<>>
    /\ branchContent = <<>>
    /\ localContent = <<>>
    /\ result = <<>>
    /\ pc = "off"

\* CallNewRepoLocal that keeps the earlier binding when the open fails
CallNewRepoLocalKeepBinding ==
    /\ phase = "idle"
    /\ \E repoPath \in DirArgs :
          LET r == NewRepoLocal(repoPath)
          IN  /\ repository' = IF r.err # NoErr THEN repository ELSE r.repository
              /\ call' = Called("NewRepoLocal", [NoArgs EXCEPT !.repoPath = repoPath],
                                Ret(<<>>, r.err))
    /\ phase' = "returned"
    /\ UNCHANGED <<trees, fsDest>>

CallNewRepoLocal ==
    /\ phase = "idle"
    /\ \E repoPath \in DirArgs :
          LET r == NewRepoLocal(repoPath)
          IN  /\ repository' = r.repository
              /\ call' = Called("NewRepoLocal", [NoArgs EXCEPT !.repoPath = repoPath],
                                Ret(<<>>, r.err))
    /\ phase' = "returned"
    /\ UNCHANGED <<trees, fsDest>>

\* a Control of package git (src/git/git.go), made for this call, opens
\* repoPath; the Control of internal/git is not touched
CallNewRepoLocalLegacy ==
    /\ phase = "idle"
    /\ \E repoPath \in DirArgs :
          call' = Called("NewRepoLocalLegacy", [NoArgs EXCEPT !.repoPath = repoPath],
                         Ret(<<>>, NewRepoLocalLegacy(repoPath).err))
    /\ phase' = "returned"
    /\ UNCHANGED <<trees, repository, fsDest>>

CallListLocalBranches ==
    /\ phase = "idle"
    /\ call' = Called("ListLocalBranches", NoArgs, ListLocalBranches(repository))
    /\ phase' = "returned"
    /\ UNCHANGED <<trees, repository, fsDest>>

CallListBranches ==
    /\ phase = "idle"
    /\ call' = Called("ListBranches", NoArgs, ListBranches(repository))
    /\ phase' = "returned"
    /\ UNCHANGED <<trees, repository, fsDest>>

CallListAllBranches ==
    /\ phase = "idle"
    /\ call' = Called("ListAllBranches", NoArgs, ListAllBranches(repository))
    /\ phase' = "returned"
    /\ UNCHANGED <<trees, repository, fsDest>>

CallListRemoteBranches ==
    /\ phase = "idle"
    /\ call' = Called("ListRemoteBranches", NoArgs, ListRemoteBranches(repository))
    /\ phase' = "returned"
    /\ UNCHANGED <<trees, repository, fsDest>>

CallGetModifiedFiles ==
    /\ phase = "idle"
    /\ \E t, b \in BranchArgs :
          call' = Called("GetModifiedFiles", BranchPair(t, b),
                         GetModifiedFiles(repository, trees, t, b))
    /\ phase' = "returned"
    /\ UNCHANGED <<trees, repository, fsDest>>

CallGetAllChangedFiles ==
    /\ phase = "idle"
    /\ \E t, b \in BranchArgs :
          call' = Called("GetAllChangedFiles", BranchPair(t, b),
                         GetAllChangedFiles(repository, trees, t, b))
    /\ phase' = "returned"
    /\ UNCHANGED <<trees, repository, fsDest>>

\* CallGetFileChanges that drops the repository handle when it returns
CallGetFileChangesUnbind ==
    /\ phase = "idle"
    /\ \E t, b \in BranchArgs :
          call' = Called("GetFileChanges", BranchPair(t, b),
                         GetFileChanges(repository, trees, t, b))
    /\ phase' = "returned"
    /\ repository' = NIL
    /\ UNCHANGED <<trees, fsDest>>

CallGetFileChanges ==
    /\ phase = "idle"
    /\ \E t, b \in BranchArgs :
          call' = Called("GetFileChanges", BranchPair(t, b),
                         GetFileChanges(repository, trees, t, b))
    /\ phase' = "returned"
    /\ UNCHANGED <<trees, repository, fsDest>>

CallDownloadModifiedFiles ==
    /\ phase = "idle"
    /\ \E t, b \in BranchArgs, faults \in Faults :
          LET r == DownloadModifiedFiles(repository, trees, fsDest, t, b, DestDir, faults)
          IN  /\ call' = Called("DownloadModifiedFiles",
                                [BranchPair(t, b) EXCEPT !.faults = faults], r.out)
              /\ fsDest' = r.fs
    /\ phase' = "returned"
    /\ UNCHANGED <<trees, repository>>

CallDiffSpecificFile ==
    /\ phase = "idle"
    /\ \E t, b \in BranchArgs, f \in FileArgs :
          call' = Called("DiffSpecificFile",
                         [BranchPair(t, b) EXCEPT !.fileName = f],
                         DiffSpecificFile(repository, trees, t, b, f))
    /\ phase' = "returned"
    /\ UNCHANGED <<trees, repository, fsDest>>

\* the caller takes the outcome; the next call can start
Return ==
    /\ phase = "returned"
    /\ call' = NoCall
    /\ phase' = "idle"
    /\ UNCHANGED <<trees, repository, fsDest>>

Next ==
    \/ (CallNewRepoLocal /\ UNCHANGED <<diffVars, histVars, httpVars, rawVars>>)
    \/ (CallNewRepoLocalLegacy /\ UNCHANGED <<diffVars, histVars, httpVars, rawVars>>)
    \/ (CallListBranches /\ UNCHANGED <<diffVars, histVars, httpVars, rawVars>>)
    \/ (CallListLocalBranches /\ UNCHANGED <<diffVars, histVars, httpVars, rawVars>>)
    \/ (CallListAllBranches /\ UNCHANGED <<diffVars, histVars, httpVars, rawVars>>)
    \/ (CallListRemoteBranches /\ UNCHANGED <<diffVars, histVars, httpVars, rawVars>>)
    \/ (CallGetModifiedFiles /\ UNCHANGED <<diffVars, histVars, httpVars, rawVars>>)
    \/ (CallGetAllChangedFiles /\ UNCHANGED <<diffVars, histVars, httpVars, rawVars>>)
    \/ (CallGetFileChanges /\ UNCHANGED <<diffVars, histVars, httpVars, rawVars>>)
    \/ (CallDownloadModifiedFiles /\ UNCHANGED <<diffVars, histVars, httpVars, rawVars>>)
    \/ (CallDiffSpecificFile /\ UNCHANGED <<diffVars, histVars, httpVars, rawVars>>)
    \/ (Return /\ UNCHANGED <<diffVars, histVars, httpVars, rawVars>>)

Spec == Init /\ [][Next]_vars

----------------------------------------------------------------------------
(* The comparison queries called one after the other                       *)

\* the caller takes the outcome and keeps it to compare the next one with
ReturnRemember ==
    /\ phase = "returned"
    /\ prev' = call
    /\ call' = NoCall
    /\ phase' = "idle"
    /\ UNCHANGED <<trees, repository, fsDest>>

TwiceNext ==
    \/ (CallNewRepoLocal /\ UNCHANGED <<diffVars, histVars, httpVars, rawVars>>)
    \/ (CallGetModifiedFiles /\ UNCHANGED <<diffVars, histVars, httpVars, rawVars>>)
    \/ (CallGetAllChangedFiles /\ UNCHANGED <<diffVars, histVars, httpVars, rawVars>>)
    \/ (CallGetFileChanges /\ UNCHANGED <<diffVars, histVars, httpVars, rawVars>>)
    \/ (ReturnRemember /\ UNCHANGED <<diffVars, httpVars, rawVars>>)

SpecTwice == Init /\ [][TwiceNext]_vars

----------------------------------------------------------------------------
(* The five loops over any change list the provider can hand over: the     *)
(* methods from the line after targetTree.Diff(baseTree) on                *)

\* most changes of one list
MaxChanges == 3

\* every object.Change over the tracked paths: inserts, deletes, modifies,
\* renames, and the change whose From and To are both empty, of which
\* Action cannot tell the action
RawChangeSet ==
    {Change(from, to) : from, to \in {EmptyEntry} \cup {Entry(p) : p \in PathSet}}

RawChangeLists == UNION {[1..n -> RawChangeSet] : n \in 0..MaxChanges}

\* the branches compared and their trees: the target holds a.txt and
\* newfile.txt, the base a.txt with another content
RawTarget == "feature"
RawBase == "main"
RawTrees ==
    [n \in BranchNames |->
        [p \in PathSet |->
            IF p = "a.txt" THEN (IF n = RawTarget THEN <<"x", NL, "z", NL>>
                                                  ELSE <<"x", NL, "y", NL>>)
            ELSE IF p = "newfile.txt" /\ n = RawTarget THEN <<"x", NL, "y", NL>>
            ELSE Absent]]

\* a bound Control, both branches resolved, and the list Diff returned
RawInit ==
    /\ raw \in RawChangeLists
    /\ trees = RawTrees
    /\ repository = RepoDir
    /\ fsDest = [n \in DestNames |-> IF n = "old.txt" THEN <<"x", NL>> ELSE Absent]
    /\ call = NoCall
    /\ phase = "idle"
    /\ prev = NoCall
    /\ reqs = [c \in Connections |-> NoRequest]
    /\ readReq = NoRead
    /\ branchContent = <<>>
    /\ localContent = <<>>
    /\ result = <<>>
    /\ pc = "off"

RawGetModifiedFiles ==
    /\ phase = "idle"
    /\ call' = Called("GetModifiedFiles", BranchPair(RawTarget, RawBase),
                      Ret(ModifiedFilesLoop(raw), NoErr))
    /\ phase' = "returned"
    /\ UNCHANGED <<trees, repository, fsDest, raw>>

RawGetAllChangedFiles ==
    /\ phase = "idle"
    /\ call' = Called("GetAllChangedFiles", BranchPair(RawTarget, RawBase),
                      Ret(ChangedFilesLoop(raw), NoErr))
    /\ phase' = "returned"
    /\ UNCHANGED <<trees, repository, fsDest, raw>>

RawGetFileChanges ==
    /\ phase = "idle"
    /\ call' = Called("GetFileChanges", BranchPair(RawTarget, RawBase),
                      Ret(FileChangesLoop(raw), NoErr))
    /\ phase' = "returned"
    /\ UNCHANGED <<trees, repository, fsDest, raw>>

RawDownloadModifiedFiles ==
    /\ phase = "idle"
    /\ LET r == DownloadLoop(raw, trees[RawTarget], DestDir, RemoveAll(fsDest, FALSE),
                             <<>>, NoFaults)
       IN  /\ call' = Called("DownloadModifiedFiles", BranchPair(RawTarget, RawBase),
                             r.out)
           /\ fsDest' = r.fs
    /\ phase' = "returned"
    /\ UNCHANGED <<trees, repository, raw>>

RawDiffSpecificFile ==
    /\ phase = "idle"
    /\ \E f \in FileArgs :
          call' = Called("DiffSpecificFile",
                         [BranchPair(RawTarget, RawBase) EXCEPT !.fileName = f],
                         DiffFileLoop(raw, trees[RawTarget], trees[RawBase], f))
    /\ phase' = "returned"
    /\ UNCHANGED <<trees, repository, fsDest, raw>>

RawNext ==
    \/ (RawGetModifiedFiles /\ UNCHANGED <<diffVars, histVars, httpVars>>)
    \/ (RawGetAllChangedFiles /\ UNCHANGED <<diffVars, histVars, httpVars>>)
    \/ (RawGetFileChanges /\ UNCHANGED <<diffVars, histVars, httpVars>>)
    \/ (RawDownloadModifiedFiles /\ UNCHANGED <<diffVars, histVars, httpVars>>)
    \/ (RawDiffSpecificFile /\ UNCHANGED <<diffVars, histVars, httpVars>>)
    \/ (Return /\ UNCHANGED <<diffVars, histVars, httpVars, rawVars>>)

SpecRaw == RawInit /\ [][RawNext]_vars

----------------------------------------------------------------------------
(* The HTTP server: handlers run concurrently on the one globalControl;    *)
(* every read and write of globalControl.repository is a step of its own   *)

\* the handler of connection c goes on at position to
Goto(c, to) == reqs' = [reqs EXCEPT ![c].pc = to]

\* setError(w, err); return
ReplyError(c, err) ==
    reqs' = [reqs EXCEPT ![c].pc = "done", ![c].status = "error", ![c].err = err]

\* w.Write(data) of a list of names, or of a diff text
ReplyOk(c, names, body) ==
    reqs' = [reqs EXCEPT ![c].pc = "done", ![c].status = "ok", ![c].names = names,
                         ![c].body = body]

\* a method call on the nil globalControl.repository
ReplyPanic(c) == reqs' = [reqs EXCEPT ![c].pc = "done", ![c].status = "panic"]

\* a client sends a request on a connection that serves none
Arrive(c) ==
    /\ reqs[c].pc \in {"idle", "done"}
    /\ \E rq \in HttpRequests :
          reqs' = [reqs EXCEPT ![c] = [NoRequest EXCEPT !.path = rq.path,
                                                        !.query = rq.query,
                                                        !.pc = "start"]]
    /\ UNCHANGED repository

\* the checks of getChanges and getDiff before the call of Control
ParamError(rq) ==
    IF rq.query.yourBranch = "" THEN ErrNotProvided("yourBranch")
    ELSE IF rq.query.baseBranch = "" THEN ErrNotProvided("baseBranch")
    ELSE IF rq.path = "/git/diff" /\ rq.query.file = "" THEN ErrNotProvided("file")
    ELSE NoErr

\* getChanges and getDiff up to the call of Control: IsInitialized reads
\* globalControl.repository
HandlerCheck(c) ==
    /\ reqs[c].pc = "start"
    /\ reqs[c].path \in {"/git/changes", "/git/diff"}
    /\ IF ~IsInitialized(repository) THEN ReplyError(c, ErrNoGitControl)
       ELSE IF ParamError(reqs[c]) # NoErr THEN ReplyError(c, ParamError(reqs[c]))
       ELSE Goto(c, "refTarget")
    /\ UNCHANGED repository

\* targetRef, err := e.repository.Reference("refs/heads/" + branchName, true)
RefTarget(c) ==
    /\ reqs[c].pc = "refTarget"
    /\ IF repository = NIL THEN ReplyPanic(c)
       ELSE IF ~HasBranch(reqs[c].query.yourBranch)
           THEN ReplyError(c, ErrBranchReference(reqs[c].query.yourBranch))
       ELSE Goto(c, "refBase")
    /\ UNCHANGED repository

\* baseRef, err := e.repository.Reference("refs/heads/" + branchBase, true)
RefBase(c) ==
    /\ reqs[c].pc = "refBase"
    /\ IF repository = NIL THEN ReplyPanic(c)
       ELSE IF ~HasBranch(reqs[c].query.baseBranch)
           THEN ReplyError(c, ErrBranchReference(reqs[c].query.baseBranch))
       ELSE Goto(c, "commitTarget")
    /\ UNCHANGED repository

\* targetCommit, err := e.repository.CommitObject(targetRef.Hash())
CommitTarget(c) ==
    /\ reqs[c].pc = "commitTarget"
    /\ IF repository = NIL THEN ReplyPanic(c) ELSE Goto(c, "commitBase")
    /\ UNCHANGED repository

\* baseCommit, err := e.repository.CommitObject(baseRef.Hash()), the last
\* read of the repository, and the rest of the method and of the handler
CommitBase(c) ==
    /\ reqs[c].pc = "commitBase"
    /\ LET q == reqs[c].query
           changes == BranchChanges(trees, q.yourBranch, q.baseBranch)
           diffed == DiffFileLoop(changes, trees[q.yourBranch], trees[q.baseBranch],
                                  q.file)
       IN  IF repository = NIL THEN ReplyPanic(c)
           ELSE IF reqs[c].path = "/git/changes"
               THEN ReplyOk(c, ModifiedFilesLoop(changes), <<>>)
           ELSE IF diffed.err # NoErr THEN ReplyError(c, diffed.err)
           ELSE IF \A m \in diffed.val : m[1] # q.file
               THEN ReplyError(c, ErrFileNotFoundInDiff)
           ELSE ReplyOk(c, <<>>, (CHOOSE m \in diffed.val : m[1] = q.file)[2])
    /\ UNCHANGED repository

\* gitBranchHandler up to the call of NewRepoLocal
BranchsCheck(c) ==
    /\ reqs[c].pc = "start"
    /\ reqs[c].path = "/git/branchs"
    /\ IF reqs[c].query.dir = "" THEN ReplyError(c, ErrNotProvided("dir"))
       ELSE IF ~DirExists(reqs[c].query.dir) THEN ReplyError(c, ErrDirDoesNotExist)
       ELSE Goto(c, "bind")
    /\ UNCHANGED repository

\* globalControl.NewRepoLocal(dir): the write of e.repository; prev keeps
\* this call, the last bind of the server
Bind(c) ==
    /\ reqs[c].pc = "bind"
    /\ LET r == NewRepoLocal(reqs[c].query.dir)
       IN  /\ repository' = r.repository
           /\ prev' = Called("NewRepoLocal",
                             [NoArgs EXCEPT !.repoPath = reqs[c].query.dir],
                             Ret(<<>>, r.err))
           /\ IF r.err # NoErr THEN ReplyError(c, r.err) ELSE Goto(c, "listCheck")

\* ListAllBranches: if e.repository == nil
ListCheck(c) ==
    /\ reqs[c].pc = "listCheck"
    /\ IF repository = NIL THEN ReplyError(c, ErrNotInitialized)
       ELSE Goto(c, "listRefs")
    /\ UNCHANGED repository

\* ListAllBranches: refs, err := e.repository.References(), and the rest
ListRefs(c) ==
    /\ reqs[c].pc = "listRefs"
    /\ IF repository = NIL THEN ReplyPanic(c)
       ELSE ReplyOk(c, ListAllBranches(repository).val, <<>>)
    /\ UNCHANGED repository

\* the server as main starts it: no repository bound, no request
HttpInit ==
    /\ trees \in [BranchNames -> TreeSet]
    /\ \A p \in PathSet : trees["main"][p] = (IF p = "a.txt" THEN <<"x", NL, "y", NL>>
                                                ELSE Absent)
    /\ trees["feature"]["a.txt"] = <<"x", NL, "z", NL>>
    /\ trees["feature"]["a/b/c.txt"] = Absent
    /\ repository = NIL
    /\ reqs = [c \in Connections |-> NoRequest]
    /\ readReq = NoRead
    /\ raw = <<>>
    /\ fsDest = [n \in DestNames |-> Absent]
    /\ call = NoCall
    /\ phase = "off"
    /\ prev = NoCall
    /\ branchContent = <<>>
    /\ localContent = <<>>
    /\ result = <<>>
    /\ pc = "off"

HttpNext ==
    \/ \E c \in Connections : Arrive(c)
          /\ UNCHANGED <<diffVars, histVars, rawVars, readReq, trees,
                       fsDest, call, phase>>
    \/ \E c \in Connections : HandlerCheck(c)
          /\ UNCHANGED <<diffVars, histVars, rawVars, readReq, trees,
                       fsDest, call, phase>>
    \/ \E c \in Connections : RefTarget(c)
          /\ UNCHANGED <<diffVars, histVars, rawVars, readReq, trees,
                       fsDest, call, phase>>
    \/ \E c \in Connections : RefBase(c)
          /\ UNCHANGED <<diffVars, histVars, rawVars, readReq, trees,
                       fsDest, call, phase>>
    \/ \E c \in Connections : CommitTarget(c)
          /\ UNCHANGED <<diffVars, histVars, rawVars, readReq, trees,
                       fsDest, call, phase>>
    \/ \E c \in Connections : CommitBase(c)
          /\ UNCHANGED <<diffVars, histVars, rawVars, readReq, trees,
                       fsDest, call, phase>>
    \/ \E c \in Connections : BranchsCheck(c)
          /\ UNCHANGED <<diffVars, histVars, rawVars, readReq, trees,
                       fsDest, call, phase>>
    \/ \E c \in Connections : Bind(c)
          /\ UNCHANGED <<diffVars, rawVars, readReq, trees,
                       fsDest, call, phase>>
    \/ \E c \in Connections : ListCheck(c)
          /\ UNCHANGED <<diffVars, histVars, rawVars, readReq, trees,
                       fsDest, call, phase>>
    \/ \E c \in Connections : ListRefs(c)
          /\ UNCHANGED <<diffVars, histVars, rawVars, readReq, trees,
                       fsDest, call, phase>>

SpecHTTP == HttpInit /\ [][HttpNext]_vars

----------------------------------------------------------------------------
(* readHandler under all bounded names                                     *)

ReadInit ==
    /\ readReq \in [name : Names, pc : {"input"}, status : {""}, opened : {<<>>}]
    /\ reqs = [c \in Connections |-> NoRequest]
    /\ trees = [n \in BranchNames |-> [p \in PathSet |-> Absent]]
    /\ repository = NIL
    /\ fsDest = [n \in DestNames |-> Absent]
    /\ call = NoCall
    /\ phase = "off"
    /\ prev = NoCall
    /\ raw = <<>>
    /\ branchContent = <<>>
    /\ localContent = <<>>
    /\ result = <<>>
    /\ pc = "off"

CallReadHandler ==
    /\ readReq.pc = "input"
    /\ readReq' = [readReq EXCEPT !.pc = "done",
                                  !.status = readHandler(readReq.name).status,
                                  !.opened = readHandler(readReq.name).opened]
    /\ UNCHANGED <<reqs, diffVars, ctlVars, histVars, rawVars>>

ReadNext == CallReadHandler

SpecRead == ReadInit /\ [][ReadNext]_vars

----------------------------------------------------------------------------
(* The pure function under all bounded inputs                              *)

DiffInit ==
    /\ branchContent \in Strings
    /\ localContent \in Strings
    /\ result = <<>>
    /\ pc = "input"
    /\ trees = [n \in BranchNames |-> [p \in PathSet |-> Absent]]
    /\ repository = NIL
    /\ fsDest = [n \in DestNames |-> Absent]
    /\ call = NoCall
    /\ phase = "off"
    /\ prev = NoCall
    /\ reqs = [c \in Connections |-> NoRequest]
    /\ readReq = NoRead
    /\ raw = <<>>

\* CallGenerateDiff that trims the final "\n" of the text
CallGenerateDiffTrimmed ==
    /\ pc = "input"
    /\ result' = LET d == generateDiff(branchContent, localContent)
                 IN  SubSeq(d, 1, Len(d) - 1)
    /\ pc' = "done"
    /\ UNCHANGED <<branchContent, localContent>>
    /\ UNCHANGED ctlVars
    /\ UNCHANGED histVars
    /\ UNCHANGED httpVars
    /\ UNCHANGED rawVars

CallGenerateDiff ==
    /\ pc = "input"
    /\ result' = generateDiff(branchContent, localContent)
    /\ pc' = "done"
    /\ UNCHANGED <<branchContent, localContent>>
    /\ UNCHANGED ctlVars
    /\ UNCHANGED histVars
    /\ UNCHANGED httpVars
    /\ UNCHANGED rawVars

DiffNext == CallGenerateDiff

SpecDiff == DiffInit /\ [][DiffNext]_vars

----------------------------------------------------------------------------
(* Vocabulary of the properties of generateDiff                            *)

\* the newline-terminated lines of a text, in order
TerminatedLines(s) ==
    LET p == Split(s) IN SubSeq(p, 1, Len(p) - 1)

\* the lines of a file as a reader counts them: a final "\n" ends the last
\* line, it does not start another one
TextLines(s) ==
    LET p == Split(s)
    IN  IF p[Len(p)] = <<>> THEN SubSeq(p, 1, Len(p) - 1) ELSE p

IsMarker(line) == line \in {HeadMarker, SepMarker, BranchMarker}

\* both split inputs have a line at index i (0-based)
BothHave(bl, ll, i) == i < Len(bl) /\ i < Len(ll)

Differ(bl, ll, i) == BothHave(bl, ll, i) /\ bl[i + 1] # ll[i + 1]

Same(bl, ll, i) == BothHave(bl, ll, i) /\ bl[i + 1] = ll[i + 1]

\* number of output lines written before the loop reaches index i
OutPos(bl, ll, i) == i + 4 * Cardinality({j \in 0..(i - 1) : Differ(bl, ll, j)})

ScenarioABase == <<"x", NL, "y", NL>>
ScenarioATarget == <<"x", NL, "z", NL>>

----------------------------------------------------------------------------
(* Properties of generateDiff                                              *)

\* C1: for every string a, generateDiff(a, a) returns exactly a (identical
\* content round-trips unchanged, also when a is empty or ends with "\n").
C1_IdenticalRoundTrips ==
    (pc = "done" /\ branchContent = localContent) => result = localContent

\* C8: when the base has 2 lines and the target 3 lines of which the first
\* two are the base's, the output is those 2 lines and then the target's
\* third line, verbatim, and holds no conflict block; also when both files
\* end with a newline.
C8_ScenarioB ==
    (/\ pc = "done"
     /\ Len(TextLines(branchContent)) = 2
     /\ Len(TextLines(localContent)) = 3
     /\ SubSeq(TextLines(localContent), 1, 2) = TextLines(branchContent))
    => LET out == TerminatedLines(result)
       IN  /\ Len(out) >= 3
           /\ SubSeq(out, 1, 3) = TextLines(localContent)
           /\ \A k \in 1..Len(out) : ~IsMarker(out[k])

\* C9: for base "x\ny\n" and target "x\nz\n" the output is the line x and
\* then one conflict block with ours = z and theirs = y; in general every
\* differing index yields a block whose ours side is the target's line and
\* whose theirs side is the base's line.
C9_OursIsTargetTheirsIsBase ==
    pc = "done" =>
        LET out == TerminatedLines(result)
            bl == Split(branchContent)
            ll == Split(localContent)
        IN  /\ (branchContent = ScenarioABase /\ localContent = ScenarioATarget)
                => /\ Len(out) >= 6
                   /\ SubSeq(out, 1, 6) = << <<"x">>, HeadMarker, <<"z">>,
                                             SepMarker, <<"y">>, BranchMarker >>
                   /\ Cardinality({k \in 1..Len(out) : out[k] = HeadMarker}) = 1
            /\ \A i \in 0..MaxTextLines :
                 Differ(bl, ll, i) =>
                    LET p == OutPos(bl, ll, i)
                    IN  /\ Len(out) >= p + 5
                        /\ out[p + 1] = HeadMarker
                        /\ out[p + 2] = ll[i + 1]
                        /\ out[p + 3] = SepMarker
                        /\ out[p + 4] = bl[i + 1]
                        /\ out[p + 5] = BranchMarker

\* C9 witness: scenario A has run and its output holds a conflict block
C9_Witness ==
    /\ pc = "done"
    /\ branchContent = ScenarioABase
    /\ localContent = ScenarioATarget
    /\ \E k \in 1..Len(TerminatedLines(result)) :
           TerminatedLines(result)[k] = HeadMarker

\* C10: the output has at least max(lines(a), lines(b)) lines, and at every
\* index where both inputs have the same line the output line written for
\* that index is that line.
C10_LineCountAndVerbatim ==
    pc = "done" =>
        LET out == TerminatedLines(result)
            bl == Split(branchContent)
            ll == Split(localContent)
        IN  /\ Len(out) >= MaxLines(bl, ll)
            /\ \A i \in 0..MaxTextLines :
                 Same(bl, ll, i) => /\ Len(out) >= OutPos(bl, ll, i) + 1
                                    /\ out[OutPos(bl, ll, i) + 1] = ll[i + 1]

\* C10 witness: inputs of different line counts, with an equal line that
\* comes after a differing one
C10_Witness ==
    /\ pc = "done"
    /\ Len(Split(branchContent)) < Len(Split(localContent))
    /\ \E i, j \in 0..MaxTextLines :
          /\ i < j
          /\ Differ(Split(branchContent), Split(localContent), i)
          /\ Same(Split(branchContent), Split(localContent), j)

----------------------------------------------------------------------------
(* Vocabulary of the properties of Control                                 *)

InTree(tree, path) == path \in PathSet /\ tree[path] # Absent

\* a call of op has returned on a bound repository with both branches found
Compared(op) ==
    /\ phase = "returned"
    /\ call.op = op
    /\ repository # NIL
    /\ call.args.branchName \in BranchNames
    /\ call.args.branchBase \in BranchNames

TargetTree == trees[call.args.branchName]
BaseTree == trees[call.args.branchBase]

\* the elements of a sequence
Elems(seq) == {seq[k] : k \in 1..Len(seq)}

\* the operations that need a bound repository
SnapshotOps ==
    {"ListBranches", "ListAllBranches", "ListRemoteBranches", "GetModifiedFiles",
     "GetAllChangedFiles", "GetFileChanges", "DiffSpecificFile",
     "DownloadModifiedFiles"}

----------------------------------------------------------------------------
(* Properties of Control                                                   *)

\* C2: for a path that the target tree holds and the base tree does not,
\* DiffSpecificFile succeeds and returns the whole target content without
\* any conflict-marker line.
C2_AddedFileDiffIsTargetContent ==
    (/\ Compared("DiffSpecificFile")
     /\ InTree(TargetTree, call.args.fileName)
     /\ ~InTree(BaseTree, call.args.fileName))
    => /\ ~call.panicked
       /\ call.err = NoErr
       /\ call.diff = {<<call.args.fileName, TargetTree[call.args.fileName]>>}
       /\ \A m \in call.diff :
             \A k \in 1..Len(TerminatedLines(m[2])) :
                ~IsMarker(TerminatedLines(m[2])[k])

\* C3: a path present in the target tree and absent from the base tree is
\* reported by GetFileChanges with action "added" and listed by
\* GetModifiedFiles.
C3_TargetOnlyPathIsAdded ==
    /\ Compared("GetFileChanges")
          => \A p \in PathSet :
                (InTree(TargetTree, p) /\ ~InTree(BaseTree, p))
                => FileChange(p, "added") \in Elems(call.changes)
    /\ Compared("GetModifiedFiles")
          => \A p \in PathSet :
                (InTree(TargetTree, p) /\ ~InTree(BaseTree, p))
                => p \in Elems(call.names)

\* C4: every record of GetFileChanges has an action among added, modified,
\* deleted; an added or modified record names a path the target tree holds;
\* a deleted record names a path the target tree lacks and the base tree
\* holds.
C4_RecordsMatchTrees ==
    Compared("GetFileChanges") =>
        \A fc \in Elems(call.changes) :
            /\ fc.Action \in {"added", "modified", "deleted"}
            /\ fc.Action \in {"added", "modified"} => InTree(TargetTree, fc.Path)
            /\ fc.Action = "deleted"
                  => ~InTree(TargetTree, fc.Path) /\ InTree(BaseTree, fc.Path)

\* C5: with no repository bound, every branch and snapshot operation
\* returns the "not initialized" error and does nothing else.
C5_UnboundReturnsNotInitialized ==
    [][(/\ phase = "idle"
        /\ repository = NIL
        /\ phase' = "returned"
        /\ call'.op \in SnapshotOps)
       => /\ ~call'.panicked
          /\ call'.err = ErrNotInitialized
          /\ fsDest' = fsDest
          /\ repository' = repository]_vars

\* C6: DiffSpecificFile for a path whose change is classified deleted
\* returns the "file deleted or unchanged" error and no diff.
C6_DeletedPathIsRejected ==
    (/\ Compared("DiffSpecificFile")
     /\ FileChange(call.args.fileName, "deleted")
            \in Elems(GetFileChanges(repository, trees, call.args.branchName,
                                     call.args.branchBase).val))
    => /\ ~call.panicked
       /\ call.err = ErrDeletedOrUnchanged
       /\ call.diff = NilMap

\* the file is the same in both trees, or in neither
NotAmongChanges(fileName) ==
    \/ ~InTree(TargetTree, fileName) /\ ~InTree(BaseTree, fileName)
    \/ /\ InTree(TargetTree, fileName)
       /\ InTree(BaseTree, fileName)
       /\ TargetTree[fileName] = BaseTree[fileName]

\* C7: DiffSpecificFile for a path that is not among the changes returns
\* the "file not in diff" error naming the path and no map; it returns a
\* diff only for paths that GetModifiedFiles lists.
C7_OnlyListedPathsAreDiffed ==
    Compared("DiffSpecificFile") =>
        /\ NotAmongChanges(call.args.fileName)
              => /\ ~call.panicked
                 /\ call.err = ErrFileNotInDiff(call.args.fileName)
                 /\ call.diff = NilMap
        /\ call.err = NoErr
              => call.args.fileName
                    \in Elems(GetModifiedFiles(repository, trees, call.args.branchName,
                                               call.args.branchBase).val)

\* the three queries that list the changes between two branches
QueryOps == {"GetModifiedFiles", "GetAllChangedFiles", "GetFileChanges"}

\* the five operations that compare two branches
CompareOps == QueryOps \cup {"DiffSpecificFile", "DownloadModifiedFiles"}

\* a call of op has returned on a bound repository
Bound(op) == phase = "returned" /\ call.op = op /\ repository # NIL

\* C11: when target and base resolve to identical tree snapshots (also
\* when target = base), GetModifiedFiles, GetAllChangedFiles and
\* GetFileChanges each return an empty list and no error.
C11_IdenticalTreesNoChanges ==
    (/\ phase = "returned"
     /\ call.op \in QueryOps
     /\ repository # NIL
     /\ call.args.branchName \in BranchNames
     /\ call.args.branchBase \in BranchNames
     /\ TargetTree = BaseTree)
    => /\ ~call.panicked
       /\ call.err = NoErr
       /\ call.names = <<>>
       /\ call.changes = <<>>

\* C11 witness: two different branches whose trees are equal and hold a
\* file have been compared
C11_Witness ==
    /\ Compared("GetFileChanges")
    /\ call.args.branchName # call.args.branchBase
    /\ TargetTree = BaseTree
    /\ \E p \in PathSet : InTree(TargetTree, p)
    /\ call.err = NoErr

ChangePaths(fcs) == [k \in 1..Len(fcs) |-> fcs[k].Path]

\* C13: for the same two branches on a bound repository,
\* GetAllChangedFiles returns the paths of the GetFileChanges records in
\* the same order, and GetModifiedFiles the paths of the records that are
\* not deleted, in the same order; the three return the same error.
C13_QueriesAgree ==
    Bound("GetFileChanges") =>
        LET all == GetAllChangedFiles(repository, trees, call.args.branchName,
                                      call.args.branchBase)
            mod == GetModifiedFiles(repository, trees, call.args.branchName,
                                    call.args.branchBase)
        IN  /\ all.err = call.err
            /\ mod.err = call.err
            /\ ~mod.panicked
            /\ all.val = ChangePaths(call.changes)
            /\ mod.val = ChangePaths(SelectSeq(call.changes,
                                               LAMBDA fc : fc.Action # "deleted"))

\* C13 witness: GetFileChanges returned a deleted record and another one
C13_Witness ==
    /\ Compared("GetFileChanges")
    /\ \E j, k \in 1..Len(call.changes) :
          call.changes[j].Action = "deleted" /\ call.changes[k].Action # "deleted"

\* C14: on a bound repository, when a branch name does not resolve, every
\* comparison operation returns no result and an error naming the branch
\* whose lookup failed: the target when the target does not resolve (also
\* when the base does not resolve either), the base when only the base
\* does not resolve.
C14_BranchNotFoundNamesBranch ==
    (/\ phase = "returned"
     /\ call.op \in CompareOps
     /\ repository # NIL)
    => /\ call.args.branchName \notin BranchNames
          => /\ call.err = ErrBranchReference(call.args.branchName)
             /\ call.names = <<>> /\ call.changes = <<>>
             /\ call.downloaded = <<>> /\ call.diff = NilMap
       /\ (call.args.branchName \in BranchNames /\ call.args.branchBase \notin BranchNames)
          => /\ call.err = ErrBranchReference(call.args.branchBase)
             /\ call.names = <<>> /\ call.changes = <<>>
             /\ call.downloaded = <<>> /\ call.diff = NilMap

\* C14 witness: DiffSpecificFile was called with an unknown target and an
\* unknown base
C14_Witness ==
    /\ Bound("DiffSpecificFile")
    /\ call.args.branchName \notin BranchNames
    /\ call.args.branchBase \notin BranchNames
    /\ call.args.branchBase # call.args.branchName
    /\ call.err = ErrBranchReference(call.args.branchName)

\* the paths added or modified on the way from the base tree to the
\* target tree, in name order
AddedOrModified ==
    SelectSeq(Paths, LAMBDA p : /\ InTree(TargetTree, p)
                                /\ (~InTree(BaseTree, p) \/ TargetTree[p] # BaseTree[p]))

\* C15: after a successful DownloadModifiedFiles the files under destDir
\* are exactly the added or modified paths, each with its target-tree
\* content; no file that was there before remains, no deleted path is
\* written, and the returned list has one destination path per written
\* file, in change order.
C15_DownloadWritesAddedOrModified ==
    (Compared("DownloadModifiedFiles") /\ ~call.panicked /\ call.err = NoErr)
    => /\ \A n \in DestNames :
             fsDest[n] = IF n \in Elems(AddedOrModified) THEN TargetTree[n] ELSE Absent
       /\ call.downloaded =
             [k \in 1..Len(AddedOrModified) |-> DestPath(DestDir, AddedOrModified[k])]

\* the names DownloadModifiedFiles of call c goes through: the To.Name of
\* the Insert and Modify changes, in change order
ProcessedNames(c) ==
    ModifiedFilesLoop(BranchChanges(trees, c.args.branchName, c.args.branchBase))

\* reading name n from the target tree, or writing it, fails in call c
FailsAt(c, n) ==
    \/ ~InTree(trees[c.args.branchName], n)
    \/ c.args.faults.failStep # "" /\ c.args.faults.failFile = n

\* index in ProcessedNames(c) of the first file that fails, 0 when none does
FirstFailure(c) ==
    LET names == ProcessedNames(c)
        ks == {k \in 1..Len(names) : FailsAt(c, names[k])}
    IN  IF ks = {} THEN 0 ELSE CHOOSE k \in ks : \A j \in ks : k <= j

\* the error of the step that fails for name n in call c
FailureOf(c, n) ==
    IF ~InTree(trees[c.args.branchName], n) THEN ErrReadFile(n)
    ELSE IF c.args.faults.failStep = "MkdirAll" THEN ErrCreateDir(n)
    ELSE ErrSaveFile(n)

C17_FailuresAreReturned ==
    (/\ Compared("DownloadModifiedFiles")
     /\ (call.args.faults.clearFails \/ FirstFailure(call) > 0))
    => call.err # NoErr

\* C19: when binding fails (the path is not a git repository or does not
\* exist), NewRepoLocal, in internal/git and in git, returns an error that
\* carries the offending path.
C19_BindErrorCarriesPath ==
    (/\ phase = "returned"
     /\ call.op \in {"NewRepoLocal", "NewRepoLocalLegacy"}
     /\ call.args.repoPath # RepoDir)
    => /\ call.err # NoErr
       /\ call.err.dir = call.args.repoPath

\* the short names of the references whose prefix is in prefixes, in
\* iteration order
RECURSIVE NamesUnder(_, _)
NamesUnder(refs, prefixes) ==
    IF refs = <<>> THEN <<>>
    ELSE (IF Head(refs).prefix \in prefixes THEN <<Head(refs).short>> ELSE <<>>)
             \o NamesUnder(Tail(refs), prefixes)

\* sub is a through b with some elements left out
RECURSIVE IsSubsequence(_, _)
IsSubsequence(sub, seq) ==
    IF sub = <<>> THEN TRUE
    ELSE IF seq = <<>> THEN FALSE
    ELSE IF Head(sub) = Head(seq) THEN IsSubsequence(Tail(sub), Tail(seq))
    ELSE IsSubsequence(sub, Tail(seq))

C18_NoRequestPanics ==
    \A c \in Connections : reqs[c].status # "panic"

----------------------------------------------------------------------------
(* More properties of generateDiff; a line of an input is an element of    *)
(* its sequence split on "\n"                                              *)

\* the differing indices of the two split inputs
DifferingIndices(bl, ll) == {i \in 0..MaxTextLines : Differ(bl, ll, i)}

\* C21: every conflict block is exactly five lines in this order: the line
\* "<<<<<<< HEAD", the target's line at that index, the line "=======", the
\* base's line at that index, the line ">>>>>>> branch"; a marker line of
\* the output is always the first, third or fifth line of such a block
\* (the input lines of the model hold no marker text).
C21_ConflictBlockIsFiveLines ==
    pc = "done" =>
        LET out == TerminatedLines(result)
            bl == Split(branchContent)
            ll == Split(localContent)
            blocks == DifferingIndices(bl, ll)
        IN  /\ \A i \in blocks :
                 LET p == OutPos(bl, ll, i)
                 IN  /\ Len(out) >= p + 5
                     /\ SubSeq(out, p + 1, p + 5) =
                            <<HeadMarker, ll[i + 1], SepMarker, bl[i + 1], BranchMarker>>
            /\ \A k \in 1..Len(out) :
                 IsMarker(out[k]) =>
                     \E i \in blocks :
                         /\ k - OutPos(bl, ll, i) \in {1, 3, 5}
                         /\ out[k] = <<HeadMarker, <<>>, SepMarker, <<>>,
                                       BranchMarker>>[k - OutPos(bl, ll, i)]

\* C21 witness: a finished diff whose output holds a block that is followed
\* by a line written verbatim
C21_Witness ==
    /\ pc = "done"
    /\ \E i \in DifferingIndices(Split(branchContent), Split(localContent)) :
           /\ i + 1 < MaxLines(Split(branchContent), Split(localContent))
           /\ ~Differ(Split(branchContent), Split(localContent), i + 1)
    /\ \E k \in 1..Len(TerminatedLines(result)) :
           TerminatedLines(result)[k] = SepMarker

\* C22: the output holds exactly one conflict block for each index at which
\* both inputs have a line and the lines differ, starting where the loop
\* stands at that index, and no block elsewhere; the blocks of two adjacent
\* differing indices are two blocks, one right after the other.
C22_OneBlockPerDifferingIndex ==
    pc = "done" =>
        LET out == TerminatedLines(result)
            bl == Split(branchContent)
            ll == Split(localContent)
            blocks == DifferingIndices(bl, ll)
        IN  /\ {k \in 1..Len(out) : out[k] = HeadMarker}
                   = {OutPos(bl, ll, i) + 1 : i \in blocks}
            /\ {k \in 1..Len(out) : out[k] = SepMarker}
                   = {OutPos(bl, ll, i) + 3 : i \in blocks}
            /\ {k \in 1..Len(out) : out[k] = BranchMarker}
                   = {OutPos(bl, ll, i) + 5 : i \in blocks}
            /\ Cardinality({k \in 1..Len(out) : out[k] = HeadMarker})
                   = Cardinality(blocks)
            /\ \A i \in blocks :
                 (i + 1) \in blocks =>
                     /\ out[OutPos(bl, ll, i) + 5] = BranchMarker
                     /\ out[OutPos(bl, ll, i) + 6] = HeadMarker

\* C22 witness: two adjacent indices differ and the output holds two blocks
C22_Witness ==
    /\ pc = "done"
    /\ \E i \in DifferingIndices(Split(branchContent), Split(localContent)) :
           (i + 1) \in DifferingIndices(Split(branchContent), Split(localContent))
    /\ Cardinality({k \in 1..Len(TerminatedLines(result)) :
                       TerminatedLines(result)[k] = HeadMarker}) >= 2

\* C23: for every index within the split lines of only one input the output
\* holds that input's line verbatim and no marker: past the end of the
\* shorter input the output is the rest of the longer input, line by line.
C23_OneSidedLinesVerbatim ==
    pc = "done" =>
        LET out == TerminatedLines(result)
            bl == Split(branchContent)
            ll == Split(localContent)
            longer == IF Len(ll) > Len(bl) THEN ll ELSE bl
            shorter == IF Len(ll) > Len(bl) THEN bl ELSE ll
            p == OutPos(bl, ll, Len(shorter))
        IN  /\ SubSeq(out, p + 1, Len(out)) = SubSeq(longer, Len(shorter) + 1, Len(longer))
            /\ \A k \in (p + 1)..Len(out) : ~IsMarker(out[k])

\* C23 witness: the target has lines past the end of the base, after a
\* conflict, and the output ends with the target's last line
C23_Witness ==
    /\ pc = "done"
    /\ Len(Split(localContent)) > Len(Split(branchContent)) + 1
    /\ DifferingIndices(Split(branchContent), Split(localContent)) # {}
    /\ Len(TerminatedLines(result)) > 0
    /\ TerminatedLines(result)[Len(TerminatedLines(result))]
           = Split(localContent)[Len(Split(localContent))]

\* the number of "\n" of a string
CountNL(s) == Cardinality({k \in 1..Len(s) : s[k] = NL})

\* C29: the output consists of exactly N + 4k newline-terminated lines, N
\* the larger of the two split line counts and k the number of differing
\* indices; it is never empty and always ends with a newline.
C29_OutputLineCount ==
    pc = "done" =>
        LET bl == Split(branchContent)
            ll == Split(localContent)
        IN  /\ result # <<>>
            /\ result[Len(result)] = NL
            /\ CountNL(result)
                   = MaxLines(bl, ll) + 4 * Cardinality(DifferingIndices(bl, ll))

\* C29 witness: inputs of different line counts with two differing indices
C29_Witness ==
    /\ pc = "done"
    /\ Len(Split(branchContent)) # Len(Split(localContent))
    /\ Cardinality(DifferingIndices(Split(branchContent), Split(localContent))) = 2
    /\ CountNL(result) = MaxLines(Split(branchContent), Split(localContent)) + 8

----------------------------------------------------------------------------
(* Properties of the change records                                        *)

\* the record GetFileChanges makes of a raw change of known action
Classified(change) ==
    LET a == Action(change).action
    IN  IF a = "Insert" THEN FileChange(change.To.Name, "added")
        ELSE IF a = "Modify" THEN FileChange(change.To.Name, "modified")
        ELSE FileChange(change.From.Name, "deleted")

\* C24: GetFileChanges returns one record per raw change, in the provider's
\* order: Insert as added with the new path, Modify as modified with the new
\* path, Delete as deleted with the old path; every record has a non-empty
\* path and a non-empty action.
C24_FileChangesClassifyRawChanges ==
    (/\ phase = "returned"
     /\ call.op = "GetFileChanges"
     /\ call.err = NoErr)
    => LET rawChanges == BranchChanges(trees, call.args.branchName, call.args.branchBase)
       IN  /\ Len(call.changes) = Len(rawChanges)
           /\ \A k \in 1..Len(rawChanges) :
                /\ call.changes[k] = Classified(rawChanges[k])
                /\ call.changes[k].Path # ""
                /\ call.changes[k].Action \in {"added", "modified", "deleted"}

\* C24 witness: GetFileChanges returned an added, a modified and a deleted
\* record
C24_Witness ==
    /\ phase = "returned"
    /\ call.op = "GetFileChanges"
    /\ call.err = NoErr
    /\ \A a \in {"added", "modified", "deleted"} :
           \E k \in 1..Len(call.changes) : call.changes[k].Action = a

\* Action can tell the action of the change
Determined(change) == Action(change).err = NIL

\* the changes of the list handed over whose action can be told
DeterminedOf(changes) == SelectSeq(changes, Determined)

\* C25: a raw change whose action cannot be determined adds no entry to
\* the result of any of the five operations and never makes one fail; the
\* other records are processed as if it were not in the list.
C25_UndeterminedChangesAreSkipped ==
    phase = "returned" =>
        LET kept == DeterminedOf(raw)
            emptyDir == [n \in DestNames |-> Absent]
            download == DownloadLoop(kept, trees[RawTarget], DestDir, emptyDir, <<>>,
                                     NoFaults)
        IN  /\ call.op = "GetModifiedFiles" =>
                 /\ call.err = NoErr
                 /\ call.names = ModifiedFilesLoop(kept)
                 /\ \A k \in 1..Len(call.names) : call.names[k] # ""
            /\ call.op = "GetAllChangedFiles" =>
                 /\ call.err = NoErr
                 /\ Len(call.names) = Len(kept)
                 /\ \A k \in 1..Len(kept) : call.names[k] = Classified(kept[k]).Path
            /\ call.op = "GetFileChanges" =>
                 /\ call.err = NoErr
                 /\ Len(call.changes) = Len(kept)
                 /\ \A k \in 1..Len(kept) : call.changes[k] = Classified(kept[k])
            /\ call.op = "DownloadModifiedFiles" =>
                 /\ call.err = download.out.err
                 /\ call.downloaded = download.out.val
                 /\ fsDest = download.fs
                 /\ \A k \in 1..Len(call.downloaded) : call.downloaded[k].rel # ""
            /\ call.op = "DiffSpecificFile" =>
                 LET diffed == DiffFileLoop(kept, trees[RawTarget], trees[RawBase],
                                            call.args.fileName)
                 IN  /\ call.err = diffed.err
                     /\ call.diff = diffed.val

\* C25 witness: the list holds a change of unknown action before another
\* change, and the operation returned an entry for that other change
C25_Witness ==
    /\ phase = "returned"
    /\ Len(raw) >= 2
    /\ ~Determined(raw[1])
    /\ Determined(raw[2])
    /\ \/ call.op \in {"GetModifiedFiles", "GetAllChangedFiles"} /\ call.names # <<>>
       \/ call.op = "GetFileChanges" /\ call.changes # <<>>
       \/ call.op = "DownloadModifiedFiles" /\ call.downloaded # <<>>
       \/ call.op = "DiffSpecificFile" /\ call.diff # NilMap

\* C26: when NewRepoLocal returns an error the Control is uninitialized,
\* also when a repository was bound before the call; when it returns nil
\* the Control is initialized and holds the repository just opened.
C26_FailedBindDiscardsBinding ==
    (phase = "returned" /\ call.op = "NewRepoLocal") =>
        /\ call.err # NoErr => ~IsInitialized(repository)
        /\ call.err = NoErr => /\ IsInitialized(repository)
                               /\ repository = PlainOpen(call.args.repoPath).repository
                               /\ repository = call.args.repoPath

\* C26 witness: a bind succeeded, and the next bind failed
C26_Witness ==
    /\ phase = "returned"
    /\ prev.op = "NewRepoLocal"
    /\ prev.err = NoErr
    /\ call.op = "NewRepoLocal"
    /\ call.err # NoErr
    /\ ~IsInitialized(repository)

\* the files the call wrote: the names of the destination paths it returned
WrittenNames(c) == {c.downloaded[k].rel : k \in 1..Len(c.downloaded)}

\* C27: DownloadModifiedFiles removes everything under destDir before it
\* resolves a branch: when the call fails, with branch not found or with a
\* later error, what destDir held before the call is gone; only the files
\* the call itself wrote are there.
C27_FailedDownloadLeavesDestDirCleared ==
    (/\ phase = "returned"
     /\ call.op = "DownloadModifiedFiles"
     /\ (call.err # NoErr \/ call.panicked))
    => \A n \in DestNames : n \notin WrittenNames(call) => fsDest[n] = Absent

----------------------------------------------------------------------------
(* Properties of the HTTP server                                           *)

\* the positions of a handler inside GetModifiedFiles or DiffSpecificFile
QueryPcs == {"refTarget", "refBase", "commitTarget", "commitBase"}

\* no call of NewRepoLocal yet, or the last one returned an error
NoSuccessfulBind == prev.op = "none" \/ prev.err # NoErr

\* C28: /git/changes and /git/diff answer "no git control found" and do
\* not query the repository when gitBranchHandler has not called
\* NewRepoLocal yet or its last call failed; a comparison queries only the
\* repository the last call of NewRepoLocal opened.
C28_ComparisonOnlyAfterSuccessfulBind ==
    [][\A c \in Connections :
          /\ (/\ reqs[c].pc = "start"
              /\ reqs[c].path \in {"/git/changes", "/git/diff"}
              /\ reqs'[c].pc # "start")
             => IF NoSuccessfulBind
                    THEN /\ reqs'[c].pc = "done"
                         /\ reqs'[c].status = "error"
                         /\ reqs'[c].err = ErrNoGitControl
                    ELSE reqs'[c].err # ErrNoGitControl
          /\ (reqs[c].pc \in QueryPcs /\ reqs'[c] # reqs[c])
             => /\ ~NoSuccessfulBind
                /\ repository = prev.args.repoPath
                /\ reqs'[c].status # "panic"]_vars

\* the cleaned path lies in ./output: its first element is "output"
InsideOutput(path) ==
    CleanElems(path) # <<>> /\ CleanElems(path)[1] = OutputSegment

\* C30: readHandler never reads a file outside ./output: when the joined
\* and cleaned path of the name lies outside ./output, the answer is
\* "invalid path" and no file is opened.
C30_ReadStaysInOutputDir ==
    (/\ readReq.pc = "done"
     /\ readReq.name # <<>>
     /\ ~InsideOutput(Join(OutputDir, readReq.name)))
    => /\ readReq.status = "invalid path"
       /\ readReq.opened = <<>>

====
